---- MODULE Spec2Model ----
(***************************************************************************)
(* A model of src/data/Editor.py: the Editor.convert wrapper, the          *)
(* DistributeEditor sub-pipeline, the two GREGOR loaders and the           *)
(* PaddingEditor / UnpaddingEditor pair.                                   *)
(*                                                                         *)
(* Four specifications share the module:                                   *)
(*   SpecGeom  PaddingEditor.call followed by UnpaddingEditor.call         *)
(*   SpecPipe  DistributeEditor.convert over a list of elements            *)
(*   SpecLoad  LoadGregorGBandEditor.call / LoadGregorContinuumEditor.call *)
(*   SpecConv  Editor.convert on one result of a unit's call               *)
(* Each one initialises the variables of the others to fixed idle values   *)
(* and leaves them unchanged.  A call that raises is an outcome Err(name   *)
(* of the exception); a call that returns is Ok(value).                    *)
(***************************************************************************)
EXTENDS Integers, Sequences, FiniteSets, TLC

VARIABLES
    \* ---- geometry
    gpc,        \* "start" | "padded" | "unpadded"
    X,          \* the array given to PaddingEditor
    target,     \* PaddingEditor.target_shape, <<H, W>>
    padRes,     \* outcome of PaddingEditor.call
    unpadRes,   \* outcome of UnpaddingEditor.call
    \* ---- pipeline
    ppc,        \* "call" | "after" | "done" | "idle"
    editors,    \* DistributeEditor.editors
    elems,      \* the list handed to DistributeEditor.call as data
    kwargs0,    \* the metadata map DistributeEditor.convert is given
    callKwargs, \* the dict kwargs of DistributeEditor.call
    j,          \* index of the element whose run is in progress (1-based)
    i,          \* position of the next editor of that run (1-based)
    curData,    \* convertData's local data
    curKwargs,  \* convertData's local kwargs
    parts,      \* the list the comprehension of DistributeEditor.call has built
    runResult,  \* history: element index -> what its run returned
    obs,        \* history: <<element index, position>> -> kwargs handed to call
    upd,        \* history: <<element index, position>> -> updates call returned
    distOut,    \* outcome of DistributeEditor.convert
    afterObs,   \* kwargs handed to the editor placed after the DistributeEditor
    \* ---- loader
    lpc,        \* "start" | "loaded" | "idle"
    file,       \* the path given to the loader
    hdul,       \* the container at that path: a sequence of records
    variant,    \* which loader ran: "gband" | "continuum" | "none"
    loadRes,    \* outcome of the loader's call
    \* ---- convert
    cpc,        \* "start" | "converted" | "idle"
    cKwargs,    \* metadata given to convert
    cResult,    \* what the unit's call returned
    cOut        \* outcome of Editor.convert

geomVars == <<gpc, X, target, padRes, unpadRes>>
pipeVars == <<ppc, editors, elems, kwargs0, callKwargs, j, i, curData,
              curKwargs, parts, runResult, obs, upd, distOut, afterObs>>
loadVars == <<lpc, file, hdul, variant, loadRes>>
convVars == <<cpc, cKwargs, cResult, cOut>>
vars == <<geomVars, pipeVars, loadVars, convVars>>

\* ------------------------------------------------------------------ bounds
MaxDim == 2        \* largest trailing extent of an input array
MaxTarget == 3     \* largest extent of a target shape
MaxFrames == 2     \* largest leading (frame) axis of a 3-D input
MaxEditors == 2    \* longest sub-pipeline of a DistributeEditor
MaxElems == 3      \* longest list handed to a DistributeEditor
MaxRecords == 4    \* most records in a container

\* ------------------------------------------------------------- outcomes
Ok(v) == [ok |-> TRUE, val |-> v]
Err(e) == [ok |-> FALSE, err |-> e]
None == [t |-> "None"]

\* =====================================================================
\* Geometry: arrays are [shape |-> <<..>>, at |-> [index tuple -> sample]],
\* indices 0-based as in numpy.
\* =====================================================================

\* np.nan, the no-data sentinel.  Samples are naturals, the sentinel is not.
NaN == -1

\* the set of index tuples of an array of the given shape
Indices(shape) ==
    IF Len(shape) = 2
    THEN {<<r, c>> : r \in 0..(shape[1] - 1), c \in 0..(shape[2] - 1)}
    ELSE {<<f, r, c>> : f \in 0..(shape[1] - 1), r \in 0..(shape[2] - 1),
                        c \in 0..(shape[3] - 1)}

\* int(np.floor(d / 2)) and int(np.ceil(d / 2)) for an integer d
FloorHalf(d) == d \div 2
CeilHalfFloorBug(d) == d \div 2
CeilHalf(d) == -((-d) \div 2)

\* s[-2], s[-1]
Rows(shape) == shape[Len(shape) - 1]
Cols(shape) == shape[Len(shape)]

\* np.pad(data, pad, 'constant', constant_values=np.nan); pad is one
\* (before, after) pair per axis.  A negative width is a ValueError.
NpPad(data, pad) ==
    IF \E a \in 1..Len(pad) : pad[a][1] < 0 \/ pad[a][2] < 0
    THEN Err("ValueError")
    ELSE LET s == data.shape
             shape2 == [a \in 1..Len(s) |-> pad[a][1] + s[a] + pad[a][2]]
             inside(ix) == \A a \in 1..Len(s) :
                               /\ ix[a] >= pad[a][1]
                               /\ ix[a] < pad[a][1] + s[a]
             back(ix) == [a \in 1..Len(s) |-> ix[a] - pad[a][1]]
         IN Ok([shape |-> shape2,
                at |-> [ix \in Indices(shape2) |->
                          IF inside(ix) THEN data.at[back(ix)] ELSE NaN]])

\* PaddingEditor.call
PaddingEditor_call(data, target_shape) ==
    LET s == data.shape
        p == target_shape
        x_pad == p[1] - Rows(s)
        y_pad == p[2] - Cols(s)
        pad == << <<FloorHalf(x_pad), CeilHalf(x_pad)>>,
                  <<FloorHalf(y_pad), CeilHalf(y_pad)>> >>
    IN NpPad(data, IF Len(s) = 3 THEN << <<0, 0>> >> \o pad ELSE pad)

\* ---- Python values that UnpaddingEditor.call puts in its index list
PyInt(n) == [t |-> "int", v |-> n]
PyTuple(items) == [t |-> "tuple", items |-> items]

\* None if n == 0 else n
NoneIfZero(n) == IF n = 0 THEN None ELSE PyInt(n)

\* v[k] for a Python value v: only a tuple can be subscripted
GetItem(v, k) ==
    IF v.t = "tuple" THEN Ok(v.items[k + 1]) ELSE Err("TypeError")

\* the bound of a slice a:b on an axis of length n (step 1)
SliceBound(v, n, dflt) ==
    IF v.t = "None" THEN dflt
    ELSE IF v.v < 0 THEN (IF n + v.v < 0 THEN 0 ELSE n + v.v)
    ELSE IF v.v > n THEN n ELSE v.v

\* data[:, a:b, c:d]; three indices on a 2-D array are an IndexError
NpSlice3(data, a, b, c, d) ==
    IF Len(data.shape) # 3 THEN Err("IndexError")
    ELSE LET s == data.shape
             r0 == SliceBound(a, s[2], 0)
             r1 == SliceBound(b, s[2], s[2])
             c0 == SliceBound(c, s[3], 0)
             c1 == SliceBound(d, s[3], s[3])
             shape2 == <<s[1], IF r1 > r0 THEN r1 - r0 ELSE 0,
                               IF c1 > c0 THEN c1 - c0 ELSE 0>>
         IN Ok([shape |-> shape2,
                at |-> [ix \in Indices(shape2) |->
                          data.at[<<ix[1], ix[2] + r0, ix[3] + c0>>]]])

\* the list `unpad` of UnpaddingEditor.call: two bare entries for y and one
\* tuple for x
UnpadList(s, p) ==
    LET x_unpad == Rows(s) - p[1]
        y_unpad == Cols(s) - p[2]
    IN << NoneIfZero(FloorHalf(y_unpad)),
          NoneIfZero(CeilHalf(y_unpad)),
          PyTuple(<<NoneIfZero(FloorHalf(x_unpad)),
                    NoneIfZero(CeilHalf(x_unpad))>>) >>

\* UnpaddingEditor.call: data[:, unpad[0][0]:unpad[0][1], unpad[1][0]:unpad[1][1]]
\* the four subscripts are evaluated left to right before the slice is taken
UnpaddingEditor_call(data, target_shape) ==
    LET unpad == UnpadList(data.shape, target_shape)
        a == GetItem(unpad[1], 0)
        b == GetItem(unpad[1], 1)
        c == GetItem(unpad[2], 0)
        d == GetItem(unpad[2], 1)
    IN IF ~a.ok THEN a
       ELSE IF ~b.ok THEN b
       ELSE IF ~c.ok THEN c
       ELSE IF ~d.ok THEN d
       ELSE NpSlice3(data, a.val, b.val, c.val, d.val)

\* ---- the inputs of the geometry specification
\* every cell holds a sample that names its own position, except one
\* optional cell that already holds the sentinel
Sample(ix) ==
    IF Len(ix) = 2 THEN 10 * ix[1] + ix[2]
    ELSE 100 * ix[1] + 10 * ix[2] + ix[3]

MkArray(shape, nanAt) ==
    [shape |-> shape,
     at |-> [ix \in Indices(shape) |-> IF ix = nanAt THEN NaN ELSE Sample(ix)]]

Shapes ==
    {<<h, w>> : h \in 1..MaxDim, w \in 1..MaxDim}
    \cup {<<f, h, w>> : f \in 1..MaxFrames, h \in 1..MaxDim, w \in 1..MaxDim}

GeomIdle ==
    /\ gpc = "idle" /\ X = None /\ target = <<0, 0>>
    /\ padRes = None /\ unpadRes = None

GeomInit ==
    /\ gpc = "start"
    /\ \E shape \in Shapes :
         \E nanAt \in Indices(shape) \cup {<<>>} : X = MkArray(shape, nanAt)
    /\ target \in (1..MaxTarget) \X (1..MaxTarget)
    /\ padRes = None
    /\ unpadRes = None

\* PaddingEditor(target).call(X)
Pad ==
    /\ gpc = "start"
    /\ padRes' = PaddingEditor_call(X, target)
    /\ gpc' = "padded"
    /\ UNCHANGED <<X, target, unpadRes>>

\* UnpaddingEditor(X's trailing shape).call(padded); a failed pad raised and
\* left nothing to unpad
Unpad ==
    /\ gpc = "padded"
    /\ padRes.ok
    /\ unpadRes' = UnpaddingEditor_call(padRes.val, <<Rows(X.shape), Cols(X.shape)>>)
    /\ gpc' = "unpadded"
    /\ UNCHANGED <<X, target, padRes>>

\* =====================================================================
\* Editor.convert.  Python values are records tagged by their type in t;
\* a metadata map is a function from key to value.
\* =====================================================================
PyStr(x) == [t |-> "str", v |-> x]
PyList(items) == [t |-> "list", items |-> items]
PyDict(map) == [t |-> "dict", map |-> map]
EmptyMap == [k \in {} |-> None]

\* dict.update with a mapping: keys of add replace those of kw
MapUpdate(kw, add) ==
    [k \in (DOMAIN kw) \cup (DOMAIN add) |->
        IF k \in DOMAIN add THEN add[k] ELSE kw[k]]

\* dict.update with an iterable of (key, value) pairs, taken in order
RECURSIVE PairsUpdate(_, _)
PairsUpdate(kw, items) ==
    IF items = <<>> THEN Ok(kw)
    ELSE LET it == items[1]
         IN IF it.t \notin {"tuple", "list"} THEN Err("TypeError")
            ELSE IF Len(it.items) # 2 THEN Err("ValueError")
            ELSE PairsUpdate(MapUpdate(kw, (it.items[1].v :> it.items[2])),
                             Tail(items))

\* kwargs.update(add_kwargs) for the values add_kwargs can be
DictUpdate(kw, add) ==
    IF add.t = "dict" THEN Ok(MapUpdate(kw, add.map))
    ELSE IF add.t \in {"list", "tuple"} THEN PairsUpdate(kw, add.items)
    ELSE Err("TypeError")    \* None, a number, a 1-D array of numbers

\* Editor.convert, given what self.call returned
Editor_convertDropUpdates(result, kwargs) ==
    IF result.t = "tuple" /\ Len(result.items) = 2
    THEN Ok([data |-> result.items[1], kwargs |-> kwargs])
    ELSE Ok([data |-> result, kwargs |-> kwargs])

Editor_convert(result, kwargs) ==
    IF result.t = "tuple"
    THEN IF Len(result.items) # 2 THEN Err("ValueError")
         ELSE LET u == DictUpdate(kwargs, result.items[2])
              IN IF u.ok
                 THEN Ok([data |-> result.items[1], kwargs |-> u.val])
                 ELSE u
    ELSE Ok([data |-> result, kwargs |-> kwargs])

\* =====================================================================
\* The editors a DistributeEditor runs, and DistributeEditor itself.
\* An array is [t |-> "ndarray", ndim, rows]: rows is the sequence along the
\* leading axis, nested ndim deep, with samples at the leaves.  A Map is
\* [t |-> "Map", data, meta].
\* =====================================================================
NdArray(ndim, rows) == [t |-> "ndarray", ndim |-> ndim, rows |-> rows]
SunpyMap(data, meta) == [t |-> "Map", data |-> data, meta |-> meta]

\* NanEditor.__init__'s default for nan
NanDefault == 0

RECURSIVE NanToNum(_, _, _)
NanToNum(rows, ndim, nan) ==
    IF ndim = 0 THEN (IF rows = NaN THEN nan ELSE rows)
    ELSE [k \in 1..Len(rows) |-> NanToNum(rows[k], ndim - 1, nan)]

RECURSIVE FirstLeaf(_, _)
FirstLeaf(rows, ndim) ==
    IF ndim = 0 THEN rows ELSE FirstLeaf(rows[1], ndim - 1)

\* a.shape[1:]
RECURSIVE ShapeOf(_, _)
ShapeOf(rows, ndim) ==
    IF ndim = 0 THEN <<>>
    ELSE IF Len(rows) = 0 THEN [a \in 1..ndim |-> 0]
    ELSE <<Len(rows)>> \o ShapeOf(rows[1], ndim - 1)

TrailingShape(a) == Tail(ShapeOf(a.rows, a.ndim))

\* MapToDataEditor.call
MapToDataEditor_call(s_map) ==
    IF s_map.t = "Map"
    THEN Ok(PyTuple(<<s_map.data, PyDict("header" :> s_map.meta)>>))
    ELSE Err("AttributeError")

\* NanEditor.call
NanEditor_call(data, nan) ==
    Ok(NdArray(data.ndim, NanToNum(data.rows, data.ndim, nan)))

\* ExpandDimsEditor.call with axis = 0
ExpandDimsEditor_call(data) == Ok(NdArray(data.ndim + 1, <<data.rows>>))

\* Editor.call of any other unit: it hands its data on and returns one
\* update whose value it takes from the data (as the loaders take 'path')
Digest(data) ==
    IF data.t = "Map" THEN data.meta
    ELSE PyInt(FirstLeaf(data.rows, data.ndim))

Unit_call(key, data) == Ok(PyTuple(<<data, PyDict(key :> Digest(data))>>))

\* self.call(data, **kwargs) of the editor e
EditorCall(e, data) ==
    IF e.kind = "MapToData" THEN MapToDataEditor_call(data)
    ELSE IF e.kind = "Nan" THEN NanEditor_call(data, NanDefault)
    ELSE IF e.kind = "ExpandDims" THEN ExpandDimsEditor_call(data)
    ELSE Unit_call(e.key, data)

\* np.concatenate(parts, 0)
RECURSIVE Flatten(_)
Flatten(arrs) ==
    IF arrs = <<>> THEN <<>> ELSE arrs[1].rows \o Flatten(Tail(arrs))

NpConcatenate(arrs) ==
    IF arrs = <<>> THEN Err("ValueError")
    ELSE IF \E k \in 1..Len(arrs) : arrs[k].t # "ndarray" \/ arrs[k].ndim = 0
    THEN Err("ValueError")
    ELSE IF \E k \in 1..Len(arrs) :
               \/ arrs[k].ndim # arrs[1].ndim
               \/ TrailingShape(arrs[k]) # TrailingShape(arrs[1])
    THEN Err("ValueError")
    ELSE Ok(NdArray(arrs[1].ndim, Flatten(arrs)))

\* the list comprehension of DistributeEditor.call takes the runs in order
ListPrepend(list, x) == <<x>> \o list
ListAppend(list, x) == Append(list, x)

\* line 88: every run is started with the kwargs of DistributeEditor.call,
\* not with the kwargs the run before it ended with
RunKwargsThreaded(callerMap, previousRunMap) == previousRunMap
RunKwargs(callerMap, previousRunMap) == callerMap

\* f(data, **kwargs) hands the callee a fresh dict: what the callee does to
\* its dict leaves the caller's dict as it was
CallerViewAliased(callerMap, calleeMap) == calleeMap
CallerView(callerMap, calleeMap) == callerMap

\* ---- the inputs of the pipeline specification
EditorKinds ==
    {[kind |-> "MapToData"], [kind |-> "Nan"], [kind |-> "ExpandDims"],
     [kind |-> "Unit", key |-> "k1"], [kind |-> "Unit", key |-> "k2"]}

\* leading-axis lengths of the elements
LeadDims == {1, 2}

\* element e of the list: its samples name the element, and an element of
\* two rows has the sentinel in its second
ElemArray(e, lead) ==
    NdArray(1, [r \in 1..lead |-> IF r = 2 THEN NaN ELSE 10 * e + r])

MkElem(kind, e, lead) ==
    IF kind = "Map" THEN SunpyMap(ElemArray(e, lead), PyInt(100 + e))
    ELSE ElemArray(e, lead)

MkElems(kind, leads) ==
    [e \in 1..Len(leads) |-> MkElem(kind, e, leads[e])]

\* numpy is only ever handed arrays: a list of Maps goes through a
\* MapToDataEditor before any NanEditor, ExpandDimsEditor or the concatenation
RECURSIVE NumpyGetsArrays(_, _)
NumpyGetsArrays(eds, kind) ==
    IF eds = <<>> THEN kind = "ndarray"
    ELSE IF eds[1].kind = "Unit" THEN NumpyGetsArrays(Tail(eds), kind)
    ELSE IF eds[1].kind = "MapToData"
         THEN kind = "ndarray" \/ NumpyGetsArrays(Tail(eds), "ndarray")
    ELSE kind = "ndarray" /\ NumpyGetsArrays(Tail(eds), kind)

PipeIdle ==
    /\ ppc = "idle" /\ editors = <<>> /\ elems = <<>> /\ kwargs0 = EmptyMap
    /\ callKwargs = EmptyMap /\ j = 0 /\ i = 0 /\ curData = None
    /\ curKwargs = EmptyMap /\ parts = <<>> /\ runResult = <<>> /\ obs = <<>>
    /\ upd = <<>> /\ distOut = None /\ afterObs = None

PipeInit ==
    /\ ppc = "call"
    /\ \E n \in 0..MaxEditors : editors \in [1..n -> EditorKinds]
    /\ \E kind \in {"Map", "ndarray"} :
         \E n \in 0..MaxElems :
           \E leads \in [1..n -> LeadDims] : elems = MkElems(kind, leads)
    /\ IF elems = <<>> THEN TRUE ELSE NumpyGetsArrays(editors, elems[1].t)
    /\ kwargs0 \in {EmptyMap, ("k1" :> PyInt(0))}
    /\ callKwargs = kwargs0
    /\ j = 1 /\ i = 0
    /\ curData = None /\ curKwargs = EmptyMap
    /\ parts = <<>> /\ runResult = <<>> /\ obs = <<>> /\ upd = <<>>
    /\ distOut = None /\ afterObs = None

\* line 88: self.convertData(d, **kwargs) for the next d of data
StartRun ==
    /\ ppc = "call" /\ i = 0 /\ j <= Len(elems)
    /\ curData' = elems[j]
    /\ curKwargs' = RunKwargs(callKwargs, IF j = 1 THEN callKwargs ELSE curKwargs)
    /\ i' = 1
    /\ UNCHANGED <<ppc, editors, elems, kwargs0, callKwargs, j, parts,
                   runResult, obs, upd, distOut, afterObs>>

\* line 92: data, kwargs = editor.convert(data, **kwargs); an exception of
\* the editor ends DistributeEditor.convert
EditorStep ==
    /\ ppc = "call" /\ i >= 1 /\ i <= Len(editors)
    /\ LET r == EditorCall(editors[i], curData)
           c == IF r.ok THEN Editor_convert(r.val, curKwargs) ELSE r
       IN /\ obs' = obs @@ (<<j, i>> :> curKwargs)
          /\ IF c.ok
             THEN /\ curData' = c.val.data
                  /\ curKwargs' = c.val.kwargs
                  /\ callKwargs' = CallerView(callKwargs, c.val.kwargs)
                  /\ upd' = upd @@ (<<j, i>> :>
                               IF r.val.t = "tuple" THEN r.val.items[2].map
                               ELSE EmptyMap)
                  /\ i' = i + 1
                  /\ UNCHANGED <<ppc, distOut>>
             ELSE /\ ppc' = "done"
                  /\ distOut' = c
                  /\ UNCHANGED <<curData, curKwargs, callKwargs, upd, i>>
    /\ UNCHANGED <<editors, elems, kwargs0, j, parts, runResult, afterObs>>

\* line 93: return data; the comprehension of line 88 keeps it
EndRun ==
    /\ ppc = "call" /\ i > Len(editors)
    /\ parts' = ListAppend(parts, curData)
    /\ runResult' = runResult @@ (j :> curData)
    /\ j' = j + 1
    /\ i' = 0
    /\ UNCHANGED <<ppc, editors, elems, kwargs0, callKwargs, curData,
                   curKwargs, obs, upd, distOut, afterObs>>

\* line 88: np.concatenate(..., 0) once every run has returned, and lines
\* 31-37 of the convert that called DistributeEditor.call
Concat ==
    /\ ppc = "call" /\ i = 0 /\ j > Len(elems)
    /\ LET r == NpConcatenate(parts)
       IN distOut' = IF r.ok THEN Editor_convert(r.val, callKwargs) ELSE r
    /\ ppc' = IF distOut'.ok THEN "after" ELSE "done"
    /\ UNCHANGED <<editors, elems, kwargs0, callKwargs, j, i, curData,
                   curKwargs, parts, runResult, obs, upd, afterObs>>

\* the editor placed after the DistributeEditor is called with the metadata
\* that DistributeEditor.convert returned
After ==
    /\ ppc = "after"
    /\ afterObs' = distOut.val.kwargs
    /\ ppc' = "done"
    /\ UNCHANGED <<editors, elems, kwargs0, callKwargs, j, i, curData,
                   curKwargs, parts, runResult, obs, upd, distOut>>

\* =====================================================================
\* The loaders.  A record of the container is [header, data]; a header is a
\* function from key to value.  A float is kept as the ratio num / den.
\* =====================================================================
PyFloat(num, den) == [t |-> "float", num |-> num, den |-> den]

\* 430.7 and 450.55
WaveGBand == PyFloat(4307, 10)
WaveContinuum == PyFloat(45055, 100)
\* 0.0253 / 2560 and 0.0253 / 2160
Cdelt1 == PyFloat(253, 25600000)
Cdelt2 == PyFloat(253, 21600000)
Arcsec == PyStr("arcsec")

\* header[key] = value
HeaderSet(header, key, value) == MapUpdate(header, (key :> value))

\* hdul[index::2], as the sequence of positions (1-based) it selects
EverySecond(n, index) == 
    [k \in 1..((n - index + 1) \div 2) |-> index + 1 + 2 * (k - 1)]

\* sorted(records, key=TIMEOFFS): Python's sort is stable, so a record goes
\* behind every earlier record whose key is not larger
RECURSIVE InsertByTimeStrict(_, _)
InsertByTimeStrict(sortedRecs, rec) ==
    IF sortedRecs = <<>> THEN <<rec>>
    ELSE LET last == sortedRecs[Len(sortedRecs)]
         IN IF last.header["TIMEOFFS"].v < rec.header["TIMEOFFS"].v
            THEN Append(sortedRecs, rec)
            ELSE Append(InsertByTimeStrict(
                            SubSeq(sortedRecs, 1, Len(sortedRecs) - 1), rec), last)

RECURSIVE InsertByTime(_, _)
InsertByTime(sortedRecs, rec) ==
    IF sortedRecs = <<>> THEN <<rec>>
    ELSE LET last == sortedRecs[Len(sortedRecs)]
         IN IF last.header["TIMEOFFS"].v <= rec.header["TIMEOFFS"].v
            THEN Append(sortedRecs, rec)
            ELSE Append(InsertByTime(SubSeq(sortedRecs, 1, Len(sortedRecs) - 1),
                                     rec), last)

RECURSIVE SortedByTime(_)
SortedByTime(recs) ==
    IF recs = <<>> THEN <<>>
    ELSE InsertByTime(SortedByTime(SubSeq(recs, 1, Len(recs) - 1)),
                      recs[Len(recs)])

\* lines 103-109 and 131-137: the channel index, or the exception raised
ChannelIndex(container, wave) ==
    IF "WAVELNTH" \notin DOMAIN container[1].header THEN Err("AssertionError")
    ELSE IF container[1].header["WAVELNTH"] = wave THEN Ok(0)
    ELSE IF Len(container) < 2 THEN Err("IndexError")
    ELSE IF "WAVELNTH" \notin DOMAIN container[2].header THEN Err("KeyError")
    ELSE IF container[2].header["WAVELNTH"] = wave THEN Ok(1)
    ELSE Err("Exception")

\* lines 111-121 and 139-148, given the key the first unit is stored under
LoadFrames(path, container, index, unitKey) ==
    LET h0 == container[1].header
        h1 == HeaderSet(h0, unitKey, Arcsec)
        h2 == HeaderSet(h1, "cunit2", Arcsec)
        h3 == HeaderSet(h2, "cdelt1", Cdelt1)
        primary_header == HeaderSet(h3, "cdelt2", Cdelt2)
        picked == EverySecond(Len(container), index)
        band == [k \in 1..Len(picked) |-> container[picked[k]]]
    IN IF \E k \in 1..Len(band) : "TIMEOFFS" \notin DOMAIN band[k].header
       THEN Err("KeyError")
       ELSE LET srt == SortedByTime(band)
                gregor_maps == [k \in 1..Len(srt) |->
                                   SunpyMap(srt[k].data, primary_header)]
            IN Ok(PyTuple(<<PyList(gregor_maps), PyDict("path" :> path)>>))

\* LoadGregorGBandEditor.call
LoadGregorGBandEditor_call(path, container) ==
    LET ix == ChannelIndex(container, WaveGBand)
    IN IF ix.ok THEN LoadFrames(path, container, ix.val, "cunit1") ELSE ix

\* LoadGregorContinuumEditor.call
LoadGregorContinuumEditor_call(path, container) ==
    LET ix == ChannelIndex(container, WaveContinuum)
    IN IF ix.ok THEN LoadFrames(path, container, ix.val, "cunit") ELSE ix

\* ---- the inputs of the loader specification
\* what a raw header can hold: a wavelength tag or none, a time offset or
\* none, and (the primary header) scale fields that are to be overwritten
RawHeaders(primary) ==
    {LET a == IF w = None THEN EmptyMap ELSE ("WAVELNTH" :> w)
         b == IF tm = 0 THEN a ELSE a @@ ("TIMEOFFS" :> PyInt(tm))
     IN IF sc THEN b @@ ("cunit1" :> PyStr("deg")) @@ ("cunit2" :> PyStr("deg"))
                      @@ ("cdelt1" :> PyFloat(1, 1)) @@ ("cdelt2" :> PyFloat(1, 1))
        ELSE b :
     w \in {WaveGBand, WaveContinuum, None},
     tm \in 0..2,
     sc \in IF primary THEN BOOLEAN ELSE {FALSE}}

\* the container whose primary header is h and whose other headers are rest;
\* the data of a record names its position
MkContainer(h, rest) ==
    [k \in 1..(Len(rest) + 1) |->
        [header |-> IF k = 1 THEN h ELSE rest[k - 1], data |-> PyInt(k - 1)]]

Files == {PyStr("gband.fits"), PyStr("continuum.fits")}

LoadIdle ==
    /\ lpc = "idle" /\ file = None /\ hdul = <<>> /\ variant = "none"
    /\ loadRes = None

LoadInit ==
    /\ lpc = "start"
    /\ file \in Files
    /\ \E n \in 0..(MaxRecords - 1) :
         \E h \in RawHeaders(TRUE) :
           \E rest \in [1..n -> RawHeaders(FALSE)] : hdul = MkContainer(h, rest)
    /\ variant = "none"
    /\ loadRes = None

LoadGBand ==
    /\ lpc = "start"
    /\ loadRes' = LoadGregorGBandEditor_call(file, hdul)
    /\ variant' = "gband"
    /\ lpc' = "loaded"
    /\ UNCHANGED <<file, hdul>>

LoadContinuum ==
    /\ lpc = "start"
    /\ loadRes' = LoadGregorContinuumEditor_call(file, hdul)
    /\ variant' = "continuum"
    /\ lpc' = "loaded"
    /\ UNCHANGED <<file, hdul>>

\* =====================================================================
\* Editor.convert on one result
\* =====================================================================
PlainValues ==
    {NdArray(1, <<5>>), PyList(<<>>),
     PyList(<<NdArray(1, <<5>>), NdArray(1, <<6>>)>>), None}

UpdateValues ==
    {PyDict(m) : m \in {EmptyMap, ("a" :> PyInt(2)), ("c" :> PyInt(2)),
                        ("a" :> PyInt(2)) @@ ("c" :> PyInt(3))}}
    \cup {PyList(<<>>), PyList(<<PyTuple(<<PyStr("c"), PyInt(2)>>)>>),
          None, PyInt(7), NdArray(1, <<6>>)}

CallResults ==
    PlainValues
    \cup {PyTuple(<<>>)}
    \cup {PyTuple(<<v>>) : v \in PlainValues}
    \cup {PyTuple(<<v, u>>) : v \in PlainValues, u \in UpdateValues}
    \cup {PyTuple(<<v, v, v>>) : v \in PlainValues}

ConvIdle == cpc = "idle" /\ cKwargs = EmptyMap /\ cResult = None /\ cOut = None

ConvInit ==
    /\ cpc = "start"
    /\ cKwargs \in {EmptyMap, ("a" :> PyInt(1)), ("b" :> PyInt(1)),
                    ("a" :> PyInt(1)) @@ ("b" :> PyInt(1))}
    /\ cResult \in CallResults
    /\ cOut = None

Convert ==
    /\ cpc = "start"
    /\ cOut' = Editor_convert(cResult, cKwargs)
    /\ cpc' = "converted"
    /\ UNCHANGED <<cKwargs, cResult>>

\* =====================================================================
\* The specifications
\* =====================================================================
GeomNext ==
    \/ Pad /\ UNCHANGED <<pipeVars, loadVars, convVars>>
    \/ Unpad /\ UNCHANGED <<pipeVars, loadVars, convVars>>

PipeNext ==
    \/ StartRun /\ UNCHANGED <<geomVars, loadVars, convVars>>
    \/ EditorStep /\ UNCHANGED <<geomVars, loadVars, convVars>>
    \/ EndRun /\ UNCHANGED <<geomVars, loadVars, convVars>>
    \/ Concat /\ UNCHANGED <<geomVars, loadVars, convVars>>
    \/ After /\ UNCHANGED <<geomVars, loadVars, convVars>>

LoadNext ==
    \/ LoadGBand /\ UNCHANGED <<geomVars, pipeVars, convVars>>
    \/ LoadContinuum /\ UNCHANGED <<geomVars, pipeVars, convVars>>

ConvNext == Convert /\ UNCHANGED <<geomVars, pipeVars, loadVars>>

InitGeom == GeomInit /\ PipeIdle /\ LoadIdle /\ ConvIdle
InitPipe == PipeInit /\ GeomIdle /\ LoadIdle /\ ConvIdle
InitLoad == LoadInit /\ GeomIdle /\ PipeIdle /\ ConvIdle
InitConv == ConvInit /\ GeomIdle /\ PipeIdle /\ LoadIdle

SpecGeom == InitGeom /\ [][GeomNext]_vars
SpecPipe == InitPipe /\ [][PipeNext]_vars
SpecLoad == InitLoad /\ [][LoadNext]_vars
SpecConv == InitConv /\ [][ConvNext]_vars

\* =====================================================================
\* Properties
\* =====================================================================

\* the largest n with 2n <= d, for d >= 0
HalfDown(d) == CHOOSE n \in 0..d : 2 * n <= d /\ d < 2 * (n + 1)

\* C8: when the input fits the target, PaddingEditor returns an array whose
\* trailing shape is the target, in which original cell (r, c) sits at
\* (r + floor((H-h)/2), c + floor((W-w)/2)) and every other cell is NaN; the
\* frame axis of a 3-D input keeps its length and is not padded.
PadPlacement ==
    (gpc \in {"padded", "unpadded"}
       /\ Rows(X.shape) <= target[1] /\ Cols(X.shape) <= target[2])
    => /\ padRes.ok
       /\ Len(padRes.val.shape) = Len(X.shape)
       /\ Rows(padRes.val.shape) = target[1]
       /\ Cols(padRes.val.shape) = target[2]
       /\ Len(X.shape) = 3 => padRes.val.shape[1] = X.shape[1]
       /\ LET n == Len(X.shape)
              offR == HalfDown(target[1] - Rows(X.shape))
              offC == HalfDown(target[2] - Cols(X.shape))
          IN \A ix \in DOMAIN padRes.val.at :
               LET r == ix[n - 1] - offR
                   c == ix[n] - offC
                   src == IF n = 3 THEN <<ix[1], r, c>> ELSE <<r, c>>
               IN IF r \in 0..(Rows(X.shape) - 1) /\ c \in 0..(Cols(X.shape) - 1)
                  THEN padRes.val.at[ix] = X.at[src]
                  ELSE padRes.val.at[ix] = NaN

\* a 3-D input of two frames padded by an odd amount on one axis and an even
\* amount on the other
PadPlacementWitness ==
    /\ gpc = "padded" /\ padRes.ok
    /\ Len(X.shape) = 3 /\ X.shape[1] = 2
    /\ target[1] - Rows(X.shape) = 1
    /\ target[2] - Cols(X.shape) = 2

\* C1: for every X whose trailing shape fits the target, unpadding the padded
\* array to X's trailing shape completes without error and returns X.
RoundTrip ==
    gpc = "unpadded" => unpadRes.ok /\ unpadRes.val = X

\* C2: the metadata handed to the editor at position pos of a run holds, for
\* every key, the value the latest editor before pos returned for it, else
\* the initial value, else nothing: no key of an editor at pos or later.
MetaKeys == {"k1", "k2", "header"}

MetadataOrdering ==
    \A p \in DOMAIN obs :
      /\ DOMAIN obs[p] \subseteq MetaKeys
      /\ \A k \in MetaKeys :
           LET writers == {m \in 1..(p[2] - 1) : k \in DOMAIN upd[<<p[1], m>>]}
               latest == CHOOSE m \in writers : \A m2 \in writers : m2 <= m
           IN IF writers # {}
              THEN k \in DOMAIN obs[p] /\ obs[p][k] = upd[<<p[1], latest>>][k]
              ELSE IF k \in DOMAIN kwargs0
              THEN k \in DOMAIN obs[p] /\ obs[p][k] = kwargs0[k]
              ELSE k \notin DOMAIN obs[p]

\* the sequence [A writes k2, B writes k1] has run from an empty map: B saw
\* k2 and neither saw k1
MetadataOrderingWitness ==
    /\ ppc = "done" /\ distOut.ok
    /\ Len(editors) = 2 /\ Len(elems) >= 1 /\ kwargs0 = EmptyMap
    /\ editors[1].kind = "Unit" /\ editors[2].kind = "Unit"
    /\ editors[1].key = "k2" /\ editors[2].key = "k1"
    /\ DOMAIN obs[<<1, 1>>] = {}
    /\ DOMAIN obs[<<1, 2>>] = {"k2"}

\* C4: every run starts from the map DistributeEditor.call was given, no run
\* observes a value another run wrote, and the map of the call stays as given.
Isolation ==
    /\ ppc # "idle" => callKwargs = kwargs0
    /\ \A p \in DOMAIN obs : p[2] = 1 => obs[p] = kwargs0
    /\ \A p \in DOMAIN upd : \A q \in DOMAIN obs :
         p[1] # q[1] =>
           \A k \in DOMAIN upd[p] :
              ~(k \in DOMAIN obs[q] /\ obs[q][k] = upd[p][k])

\* the first run wrote a key at its first position, and the second run was
\* handed the same key, with its own value, at its second position
IsolationWitness ==
    /\ ppc = "done" /\ distOut.ok /\ Len(elems) >= 2 /\ Len(editors) = 2
    /\ upd[<<1, 1>>] # EmptyMap
    /\ <<2, 2>> \in DOMAIN obs
    /\ DOMAIN upd[<<1, 1>>] \subseteq DOMAIN obs[<<2, 2>>]

\* C5: the output of DistributeEditor.call is the results of the runs laid
\* end to end in the order of the input, so its leading dimension is the sum
\* of theirs and the block of element e holds the samples of element e.
RECURSIVE LeadSum(_, _)
LeadSum(res, n) == IF n = 0 THEN 0 ELSE LeadSum(res, n - 1) + Len(res[n].rows)

InputOrder ==
    (ppc \in {"after", "done"} /\ distOut.ok)
    => LET out == distOut.val.data
       IN /\ DOMAIN runResult = 1..Len(elems)
          /\ Len(out.rows) = LeadSum(runResult, Len(elems))
          /\ \A e \in 1..Len(elems) :
               /\ FirstLeaf(runResult[e].rows, runResult[e].ndim) = 10 * e + 1
               /\ \A r \in 1..Len(runResult[e].rows) :
                    out.rows[LeadSum(runResult, e - 1) + r] = runResult[e].rows[r]

\* three elements whose results have leading dimensions 1, 2, 1
InputOrderWitness ==
    /\ ppc = "done" /\ distOut.ok /\ Len(elems) = 3
    /\ Len(runResult[1].rows) = 1
    /\ Len(runResult[2].rows) = 2
    /\ Len(runResult[3].rows) = 1
    /\ Len(distOut.val.data.rows) = 4

\* C10: DistributeEditor.convert returns the metadata map it was given, so
\* the editor placed after it sees no key written inside the sub-pipeline.
FrameMetadata ==
    /\ (ppc \in {"after", "done"} /\ distOut.ok) => distOut.val.kwargs = kwargs0
    /\ (ppc = "done" /\ distOut.ok) => afterObs = kwargs0

\* a MapToDataEditor of the sub-pipeline wrote 'header' and the editor after
\* the DistributeEditor has been called
FrameMetadataWitness ==
    /\ ppc = "done" /\ distOut.ok
    /\ \E p \in DOMAIN upd : "header" \in DOMAIN upd[p]
    /\ \E p \in DOMAIN upd : "k1" \in DOMAIN upd[p]
    /\ "header" \notin DOMAIN afterObs

\* ---- the loaders
TargetWave == IF variant = "gband" THEN WaveGBand ELSE WaveContinuum

Tagged(k, wave) ==
    /\ k <= Len(hdul)
    /\ "WAVELNTH" \in DOMAIN hdul[k].header
    /\ hdul[k].header["WAVELNTH"] = wave

\* the 0-based positions index, index+2, index+4, ...
Channel(index) == {q \in 0..(Len(hdul) - 1) : q >= index /\ (q - index) % 2 = 0}

TimeOf(q) == hdul[q + 1].header["TIMEOFFS"].v

\* C6: a load that returns has found the target wavelength in record 0 or 1
\* and returns one frame for each of the records index, index+2, ..., in
\* ascending TIMEOFFS with equal TIMEOFFS in container order, with the update
\* {path: file}; and the load returns whenever the primary header is tagged,
\* record 0 or 1 carries the target and every selected record has a TIMEOFFS.
FrameSelection ==
    lpc = "loaded" =>
      LET index == IF Tagged(1, TargetWave) THEN 0 ELSE 1
          loadable ==
            /\ "WAVELNTH" \in DOMAIN hdul[1].header
            /\ Tagged(1, TargetWave) \/ Tagged(2, TargetWave)
            /\ \A q \in Channel(index) : "TIMEOFFS" \in DOMAIN hdul[q + 1].header
      IN /\ loadRes.ok <=> loadable
         /\ loadRes.ok =>
              LET maps == loadRes.val.items[1].items
                  at(k) == maps[k].data.v
              IN /\ Len(maps) = Cardinality(Channel(index))
                 /\ {at(k) : k \in 1..Len(maps)} = Channel(index)
                 /\ \A a \in 1..Len(maps) : \A b \in 1..Len(maps) :
                      a < b => \/ TimeOf(at(a)) < TimeOf(at(b))
                               \/ /\ TimeOf(at(a)) = TimeOf(at(b))
                                  /\ at(a) < at(b)
                 /\ \A k \in 1..Len(maps) :
                      maps[k].data = hdul[at(k) + 1].data
                 /\ loadRes.val.items[2] = PyDict("path" :> file)

\* channel index 1 of a container of four records: record 3 is earlier than
\* record 1 and comes out first
FrameSelectionWitness ==
    /\ lpc = "loaded" /\ loadRes.ok /\ Len(hdul) = 4
    /\ ~Tagged(1, TargetWave) /\ Tagged(2, TargetWave)
    /\ TimeOf(1) = 2 /\ TimeOf(3) = 1
    /\ loadRes.val.items[1].items[1].data = PyInt(3)
    /\ loadRes.val.items[1].items[2].data = PyInt(1)

\* channel index 0 with equal time offsets: container order is kept
FrameSelectionTieWitness ==
    /\ lpc = "loaded" /\ loadRes.ok /\ Len(hdul) = 3
    /\ Tagged(1, TargetWave)
    /\ TimeOf(0) = TimeOf(2)
    /\ loadRes.val.items[1].items[1].data = PyInt(0)
    /\ loadRes.val.items[1].items[2].data = PyInt(2)

\* C7: when the primary header has a wavelength tag and neither record 0 nor
\* record 1 carries the target (a missing or untagged second record
\* included), the load ends in the one error raised for an unsupported file.
UnsupportedRaises ==
    (lpc = "loaded"
       /\ "WAVELNTH" \in DOMAIN hdul[1].header
       /\ ~Tagged(1, TargetWave) /\ ~Tagged(2, TargetWave))
    => (~loadRes.ok /\ loadRes.err = "Exception")

\* C9: after a successful load by either variant the header of every frame
\* has cunit1 and cunit2 set to 'arcsec' and cdelt1, cdelt2 set to the
\* configured constants.
HeaderPatched ==
    (lpc = "loaded" /\ loadRes.ok) =>
      \A k \in 1..Len(loadRes.val.items[1].items) :
        LET h == loadRes.val.items[1].items[k].meta
        IN /\ {"cunit1", "cunit2", "cdelt1", "cdelt2"} \subseteq DOMAIN h
           /\ h["cunit1"] = Arcsec /\ h["cunit2"] = Arcsec
           /\ h["cdelt1"] = Cdelt1 /\ h["cdelt2"] = Cdelt2

\* ---- Editor.convert
IsPair(r) == r.t = "tuple" /\ Len(r.items) = 2 /\ r.items[2].t = "dict"

\* C3: a result that is a pair (value, updates) gives value and the metadata
\* extended by updates; any other result is returned as the data, with the
\* metadata as given.
ConvertResult ==
    cpc = "converted" =>
      /\ cOut.ok
      /\ IF IsPair(cResult)
         THEN /\ cOut.val.data = cResult.items[1]
              /\ cOut.val.kwargs = MapUpdate(cKwargs, cResult.items[2].map)
         ELSE /\ cOut.val.data = cResult
              /\ cOut.val.kwargs = cKwargs

====
